---- MODULE Spec2Model ----
(***************************************************************************)
(* Model of server.js: the supplier search backend.                        *)
(*                                                                         *)
(*   buildQuery            query-string builder                            *)
(*   mapResultToSupplier   per-result heuristics mapper                    *)
(*   POST /api/search-suppliers   the request handler, split at its two    *)
(*                         suspension points (await fetch, await json)     *)
(*                                                                         *)
(* JavaScript strings are TLA+ strings.  A JavaScript value of unknown     *)
(* type (a field of a JSON body) is a tagged record, so that the dynamic   *)
(* type errors of the code (calling a string method on a number) are part  *)
(* of the model.                                                           *)
(***************************************************************************)
EXTENDS Integers, Sequences, FiniteSets, TLC

VARIABLES
    keyPresent,     \* SERP_API_KEY is set (read once at start-up)
    pc,             \* position of the handler: idle, fetch, json, done
    req,            \* req.body of the request being handled
    query,          \* const query
    num,            \* const num
    fetchCount,     \* outbound search requests issued for this request
    upstream,       \* status of the provider's answer (0: none yet)
    bodyRead,       \* response.json() was called
    mappedCount,    \* calls of mapResultToSupplier made for this request
    responses,      \* responses sent to the client, in order
    data,           \* the parsed body of the provider's answer
    mpc,            \* position of a direct call of mapResultToSupplier
    mItem,          \* its arguments
    mCountry,
    mRequirements,
    mOut            \* its outcome

vars == <<keyPresent, pc, req, query, num, fetchCount, upstream, bodyRead,
          mappedCount, responses, data, mpc, mItem, mCountry,
          mRequirements, mOut>>

handlerVars == <<keyPresent, pc, req, query, num, fetchCount, upstream,
                 bodyRead, mappedCount, responses, data>>

mapperVars == <<mpc, mItem, mCountry, mRequirements, mOut>>

----------------------------------------------------------------------------
(* JavaScript values *)

JUndef == [t |-> "undefined", s |-> "", n |-> 0]

JStr(x) == [t |-> "string", s |-> x, n |-> 0]

JNum(k) == [t |-> "number", s |-> "", n |-> k]

\* ToBoolean: undefined, "" and 0 are falsy
Truthy(v) == (v.t = "string" /\ v.s # "") \/ (v.t = "number" /\ v.n # 0)

\* a || b
OrElse(a, b) == IF Truthy(a) THEN a ELSE b

\* ToString, as string concatenation and template literals apply it
ToJSString(v) ==
    CASE v.t = "string" -> v.s
      [] v.t = "number" -> ToString(v.n)
      [] OTHER -> "undefined"

----------------------------------------------------------------------------
(* String primitives *)

LowerAlpha == "abcdefghijklmnopqrstuvwxyz"

UpperAlpha == "ABCDEFGHIJKLMNOPQRSTUVWXYZ"

DigitChars == "0123456789"

CharAt(s, i) == SubSeq(s, i, i)

CharsOf(s) == {CharAt(s, i) : i \in 1..Len(s)}

SetMin(S) == CHOOSE x \in S : \A y \in S : x <= y

SetMax(S) == CHOOSE x \in S : \A y \in S : x >= y

Letters == CharsOf(LowerAlpha) \cup CharsOf(UpperAlpha)

LowerAlnums == CharsOf(LowerAlpha) \cup CharsOf(DigitChars)

\* the lower-case letter of each upper-case letter
LowerOf ==
    [c \in CharsOf(UpperAlpha) |->
        CharAt(LowerAlpha, CHOOSE i \in 1..Len(UpperAlpha) : CharAt(UpperAlpha, i) = c)]

IsLetter(c) == c \in Letters

\* [a-z0-9]
IsLowerAlnum(c) == c \in LowerAlnums

\* \s
IsSpace(c) == c \in {" ", "\t", "\n", "\r"}

lowerChar(c) == IF c \in DOMAIN LowerOf THEN LowerOf[c] ELSE c

RECURSIVE toLowerCase(_)
\* String.prototype.toLowerCase
toLowerCase(s) ==
    IF Len(s) = 0 THEN ""
    ELSE lowerChar(CharAt(s, 1)) \o toLowerCase(SubSeq(s, 2, Len(s)))

\* String.prototype.includes
includes(s, sub) ==
    \E i \in 0..(Len(s) - Len(sub)) : SubSeq(s, i + 1, i + Len(sub)) = sub

\* String.prototype.trim
trim(s) ==
    LET idx == {i \in 1..Len(s) : ~IsSpace(CharAt(s, i))}
    IN  IF idx = {} THEN "" ELSE SubSeq(s, SetMin(idx), SetMax(idx))

RECURSIVE join(_, _)
\* Array.prototype.join
join(seq, sep) ==
    IF Len(seq) = 0 THEN ""
    ELSE IF Len(seq) = 1 THEN seq[1]
    ELSE seq[1] \o sep \o join(Tail(seq), sep)

----------------------------------------------------------------------------
(* buildQuery *)

extraKeywords == <<"supplier", "manufacturer", "vendor", "B2B">>

\* (requirements || "").trim() is a TypeError when requirements is a truthy
\* non-string
buildQuery(requirements, country, certifications) ==
    LET r == OrElse(requirements, JStr(""))
    IN  IF r.t # "string" THEN [threw |-> TRUE, query |-> ""]
        ELSE
        LET base0 == trim(r.s)
            base1 == IF base0 = "" THEN "industrial supplier" ELSE base0
            base  == IF Truthy(certifications)
                     THEN base1 \o " " \o ToJSString(certifications)
                     ELSE base1
            q0    == base \o " (" \o join(extraKeywords, " OR ") \o ")"
            q     == IF Truthy(country)
                     THEN q0 \o " in " \o ToJSString(country)
                     ELSE q0
        IN  [threw |-> FALSE, query |-> q]

----------------------------------------------------------------------------
(* mapResultToSupplier.  The en dashes of the messages are written - here. *)

StartsWith(s, p) == Len(s) >= Len(p) /\ SubSeq(s, 1, Len(p)) = p

IsHostChar(c) == IsLowerAlnum(c) \/ c \in {".", "-"}

\* new URL(url).hostname for the absolute http(s) URLs and the scheme-less
\* strings of RawLinks: the scheme and host are lower-cased, the host ends at
\* the first of / ? # or the port's colon; a string with no scheme, an empty
\* host or a forbidden host character makes new URL throw.
URLhostname(u) ==
    LET l     == toLowerCase(u)
        start == IF StartsWith(l, "https://") THEN 9
                 ELSE IF StartsWith(l, "http://") THEN 8 ELSE 0
        stops == {i \in start..Len(l) : CharAt(l, i) \in {"/", "?", "#", ":"}}
        last  == IF stops = {} THEN Len(l) ELSE SetMin(stops) - 1
        host  == IF start = 0 \/ last < start THEN "" ELSE SubSeq(l, start, last)
    IN  IF host # "" /\ \A i \in 1..Len(host) : IsHostChar(CharAt(host, i))
        THEN [ok |-> TRUE, hostname |-> host]
        ELSE [ok |-> FALSE, hostname |-> ""]

\* if (cond) tags.push(tag)
pushIf(cond, tags, tag) == IF cond THEN Append(tags, tag) ELSE tags

mapTags_MarkerFirst(lowerSnippet, lowerReq) ==
    LET t0 == <<"Web result">>
        t1 == pushIf(includes(lowerSnippet, "iso"), t0, "ISO / quality")
        t2 == pushIf(includes(lowerSnippet, "medical") \/ includes(lowerSnippet, "pharma"),
                     t1, "Life sciences")
        t3 == pushIf(includes(lowerSnippet, "plastic"), t2, "Plastics")
        t4 == pushIf(includes(lowerSnippet, "contract manufacturing"),
                     t3, "Contract manufacturing")
    IN  pushIf(includes(lowerReq, "prototype") \/ includes(lowerReq, "prototyping"),
               t4, "Prototyping")

mapTags(lowerSnippet, lowerReq) ==
    LET t1 == pushIf(includes(lowerSnippet, "iso"), <<>>, "ISO / quality")
        t2 == pushIf(includes(lowerSnippet, "medical") \/ includes(lowerSnippet, "pharma"),
                     t1, "Life sciences")
        t3 == pushIf(includes(lowerSnippet, "plastic"), t2, "Plastics")
        t4 == pushIf(includes(lowerSnippet, "contract manufacturing"),
                     t3, "Contract manufacturing")
        t5 == pushIf(includes(lowerReq, "prototype") \/ includes(lowerReq, "prototyping"),
                     t4, "Prototyping")
    IN  Append(t5, "Web result")

mapSizeCategory(lowerSnippet) ==
    IF \/ includes(lowerSnippet, "small company")
       \/ includes(lowerSnippet, "sme")
       \/ includes(lowerSnippet, "family-owned")
       \/ includes(lowerSnippet, "family owned")
    THEN "Small / SME (heuristic from snippet)"
    ELSE IF \/ includes(lowerSnippet, "multinational")
            \/ includes(lowerSnippet, "global leader")
            \/ includes(lowerSnippet, "worldwide")
            \/ includes(lowerSnippet, "thousands of employees")
    THEN "Large / multinational (heuristic from snippet)"
    ELSE "Not stated - likely small/medium (verify manually)"

mapEmployees(lowerSnippet) ==
    IF includes(lowerSnippet, "employees")
    THEN "Employees mentioned in snippet - confirm on website"
    ELSE "Unknown (check company website / LinkedIn)"

mapTurnover(lowerSnippet) ==
    IF \/ includes(lowerSnippet, "million")
       \/ includes(lowerSnippet, "billion")
       \/ includes(lowerSnippet, "turnover")
       \/ includes(lowerSnippet, "revenue")
    THEN "Turnover / revenue mentioned in snippet - check original page for figures."
    ELSE "Not stated - check company financials / About page."

\* the literal heads of /based in ([A-Za-z\s-]+)/i and the two after it
locationPatterns == <<"based in ", "headquartered in ", "located in ">>

\* [A-Za-z\s-]
InLocationClass(c) == IsLetter(c) \/ IsSpace(c) \/ c = "-"

\* the pattern's head matches at p (the i flag: lower is the text with its
\* case folded) and one class character follows it
MatchesAt(lower, head, p) ==
    /\ p + Len(head) <= Len(lower)
    /\ SubSeq(lower, p, p + Len(head) - 1) = head
    /\ InLocationClass(CharAt(lower, p + Len(head)))

RECURSIVE RunEnd(_, _)
\* the greedy + : last index of the run of class characters that starts at i
RunEnd(text, i) ==
    IF i < Len(text) /\ InLocationClass(CharAt(text, i + 1))
    THEN RunEnd(text, i + 1)
    ELSE i

\* text.match(pattern): the leftmost match, its capture group m[1]
match(text, head) ==
    LET lower == toLowerCase(text)
        ps    == {p \in 1..Len(text) : MatchesAt(lower, head, p)}
    IN  IF ps = {} THEN [found |-> FALSE, m1 |-> ""]
        ELSE LET from == SetMin(ps) + Len(head)
             IN  [found |-> TRUE, m1 |-> SubSeq(text, from, RunEnd(text, from))]

locationDefault(country) ==
    [threw |-> FALSE,
     location |-> OrElse(country, JStr("Not specified")),
     locationDetail |-> "Location not clearly stated in search snippet."]

locationFound(m1, country) ==
    [threw |-> FALSE,
     location |-> JStr(trim(m1) \o (IF Truthy(country)
                                    THEN ", " \o ToJSString(country) ELSE "")),
     locationDetail |-> "Appears to be located in " \o trim(m1)
                            \o " (from snippet/title)."]

locationThrew ==
    [threw |-> TRUE, location |-> JUndef, locationDetail |-> ""]

RECURSIVE locationLoop(_, _, _, _)
\* for (const pattern of locationPatterns): snippet.match(pattern) ||
\* title.match(pattern); title.match is a TypeError when title is no string
locationLoop(i, snippet, title, country) ==
    IF i > Len(locationPatterns) THEN locationDefault(country)
    ELSE LET ms == match(snippet, locationPatterns[i])
         IN  IF ms.found THEN locationFound(ms.m1, country)
             ELSE IF title.t # "string" THEN locationThrew
             ELSE LET mt == match(title.s, locationPatterns[i])
                  IN  IF mt.found THEN locationFound(mt.m1, country)
                      ELSE locationLoop(i + 1, snippet, title, country)

RECURSIVE firstMatch(_, _)
\* the capture of the first pattern, from the i-th on, that matches text
firstMatch(i, text) ==
    IF i > Len(locationPatterns) THEN [found |-> FALSE, m1 |-> ""]
    ELSE IF match(text, locationPatterns[i]).found THEN match(text, locationPatterns[i])
    ELSE firstMatch(i + 1, text)

\* every pattern on the snippet, and only then every pattern on the title
mapLocation_TextOrder(snippet, title, country) ==
    IF firstMatch(1, snippet).found THEN locationFound(firstMatch(1, snippet).m1, country)
    ELSE IF title.t # "string" THEN locationThrew
    ELSE IF firstMatch(1, title.s).found
    THEN locationFound(firstMatch(1, title.s).m1, country)
    ELSE locationDefault(country)

mapLocation(snippet, title, country) == locationLoop(1, snippet, title, country)

RECURSIVE splitFrom(_, _, _, _)
\* String.prototype.split(/[^a-z0-9]+/): the pieces between the separator
\* runs, the empty pieces at either end included
splitFrom(s, i, cur, acc) ==
    IF i > Len(s) THEN Append(acc, cur)
    ELSE IF IsLowerAlnum(CharAt(s, i)) THEN splitFrom(s, i + 1, cur \o CharAt(s, i), acc)
    ELSE IF i > 1 /\ ~IsLowerAlnum(CharAt(s, i - 1)) THEN splitFrom(s, i + 1, cur, acc)
    ELSE splitFrom(s, i + 1, "", Append(acc, cur))

minKeywordLength == 4

requirementKeywords(lowerReq) ==
    SelectSeq(splitFrom(lowerReq, 1, "", <<>>), LAMBDA w : Len(w) >= minKeywordLength)

dedupe_KeepAll(words, acc) == words

RECURSIVE dedupe(_, _)
\* [...new Set(words)]: first occurrences, in order
dedupe(words, acc) ==
    IF Len(words) = 0 THEN acc
    ELSE IF \E j \in 1..Len(acc) : acc[j] = Head(words) THEN dedupe(Tail(words), acc)
    ELSE dedupe(Tail(words), Append(acc, Head(words)))

\* Array.prototype.slice(0, n) for an integer n >= 0
slice0(seq, n) == SubSeq(seq, 1, IF n < Len(seq) THEN n ELSE Len(seq))

maxKeywords == 8

uniqueKeywords(lowerReq) == slice0(dedupe(requirementKeywords(lowerReq), <<>>), maxKeywords)

matchedKeywords(keywords, lowerSnippet) ==
    SelectSeq(keywords, LAMBDA k : includes(lowerSnippet, k))

MathRound_Floor(a, b) == a \div b

\* Math.round(a / b) for a >= 0, b > 0: halves round up
MathRound(a, b) == (2 * a + b) \div (2 * b)

mapMatchScore(matched, keywords) ==
    IF Len(keywords) > 0 THEN MathRound(Len(matched) * 100, Len(keywords)) ELSE 0

mapMatchSummary(matched, keywords, matchScore) ==
    IF Len(keywords) = 0
    THEN "No specific keywords provided - generic supplier match."
    ELSE IF matchScore = 0
    THEN "Snippet does not clearly mention your key terms - review manually for fit."
    ELSE "Matches approx. " \o ToString(matchScore) \o "% of your key terms: "
             \o join(matched, ", ") \o "."

Thrown == [threw |-> TRUE]

\* An item is a record of the five fields the code reads.
mapResultToSupplier(item, country, requirements) ==
    LET url         == OrElse(item.link, OrElse(item.url, JStr("")))
        parsed      == IF Truthy(url) THEN URLhostname(ToJSString(url))
                       ELSE [ok |-> FALSE, hostname |-> ""]
        displayLink == IF parsed.ok THEN parsed.hostname ELSE "unknown"
        title       == OrElse(item.title, JStr(displayLink))
        snippet     == OrElse(item.snippet, OrElse(item.description, JStr("")))
        reqOrEmpty  == OrElse(requirements, JStr(""))
    IN  IF snippet.t # "string" \/ reqOrEmpty.t # "string" THEN Thrown
        ELSE
        LET lowerSnippet == toLowerCase(snippet.s)
            lowerReq     == toLowerCase(reqOrEmpty.s)
            loc          == mapLocation(snippet.s, title, country)
            keywords     == uniqueKeywords(lowerReq)
            matched      == matchedKeywords(keywords, lowerSnippet)
            matchScore   == mapMatchScore(matched, keywords)
        IN  IF loc.threw THEN Thrown
            ELSE [threw          |-> FALSE,
                  name           |-> title,
                  url            |-> url,
                  displayLink    |-> displayLink,
                  countryHint    |-> OrElse(country, JStr("Not specified")),
                  description    |-> snippet.s,
                  tags           |-> mapTags(lowerSnippet, lowerReq),
                  sizeCategory   |-> mapSizeCategory(lowerSnippet),
                  employees      |-> mapEmployees(lowerSnippet),
                  turnover       |-> mapTurnover(lowerSnippet),
                  location       |-> loc.location,
                  locationDetail |-> loc.locationDetail,
                  matchScore     |-> matchScore,
                  matchSummary   |-> mapMatchSummary(matched, keywords, matchScore)]

----------------------------------------------------------------------------
(* Inputs *)

\* longest organic_results list the provider answers with
MaxOrganic == 3

Item(link, url, title, snippet, description) ==
    [link |-> link, url |-> url, title |-> title, snippet |-> snippet,
     description |-> description]

RawLinks == {JUndef, JStr("https://acme.example.com/x"), JStr("not a url")}

RawUrls == {JUndef, JStr("HTTP://Alt.Example.org:8080/path")}

RawTitles == {JUndef, JStr("Globex AG - Based In New-York City, USA"), JNum(7)}

RawSnippets ==
    {JUndef,
     JStr("ISO certified plastic manufacturer, family-owned, based in Ohio"),
     JStr("Worldwide pharma leader located in Basel. Contract manufacturing, 5000 employees"),
     JStr("Medical prototype parts and valve castings; revenue 3 million"),
     JNum(42)}

RawDescriptions == {JUndef, JStr("Small company for precision gears")}

\* the items mapResultToSupplier is called with directly
MapItems ==
    {Item(l, u, t, s, d) : l \in RawLinks, u \in RawUrls, t \in RawTitles,
                           s \in RawSnippets, d \in RawDescriptions}

Countries == {JUndef, JStr("Germany")}

RequirementsInputs ==
    {JUndef, JStr(""), JStr("   "), JNum(123),
     JStr("plastic prototype parts"),
     JStr("abc de-f, gh!"),
     JStr("ISO 13485 Medical valve; MEDICAL valve castings"),
     JStr("plastic gears bearings shafts flanges gaskets washers sprockets"),
     JStr("alpha bravo charlie delta echo1 foxtrot golf1 hotel plastic")}

\* the items of the provider's answers
OrganicItems ==
    {Item(JStr("https://acme.example.com/x"), JUndef, JUndef,
          JStr("ISO certified plastic manufacturer, family-owned, based in Ohio"), JUndef),
     Item(JUndef, JStr("HTTP://Alt.Example.org:8080/path"), JStr("Alt"), JUndef,
          JStr("Small company for precision gears")),
     Item(JStr("not a url"), JUndef, JStr("Globex AG - Based In New-York City, USA"),
          JStr("Worldwide pharma leader located in Basel. Contract manufacturing, 5000 employees"),
          JUndef),
     Item(JStr("https://n.example.com"), JUndef, JStr("N"), JNum(42), JUndef)}

SeqsUpTo(S, n) == UNION {[1..k -> S] : k \in 0..n}

\* the parsed bodies: organic_results absent, or a list
Bodies ==
    {[hasOrganic |-> FALSE, organic_results |-> <<>>]}
        \cup {[hasOrganic |-> TRUE, organic_results |-> l] :
                 l \in SeqsUpTo(OrganicItems, MaxOrganic)}

\* response.status of the provider's answer
Statuses == {200, 204, 301, 404, 429, 503}

MaxResultsInputs ==
    {JUndef} \cup {JNum(k) : k \in {-1, 0, 1, 2, 20, 21}}

HandlerRequirements == {JUndef, JNum(123), JStr("plastic prototype parts")}

Certifications == {JUndef, JStr("ISO 13485")}

\* req.body || {}
Requests ==
    {[requirements |-> r, country |-> c, certifications |-> ce, maxResults |-> m] :
        r \in HandlerRequirements, c \in Countries, ce \in Certifications,
        m \in MaxResultsInputs}

NoRequest ==
    [requirements |-> JUndef, country |-> JUndef, certifications |-> JUndef,
     maxResults |-> JUndef]

NoData == [hasOrganic |-> FALSE, organic_results |-> <<>>]

----------------------------------------------------------------------------
(* The request handler *)

defaultNum == 10

maxNum == 20

resolveNum_NoClamp(maxResults) ==
    IF Truthy(maxResults) /\ maxResults.n > 0 THEN maxResults.n ELSE defaultNum

\* maxResults && maxResults > 0 ? Math.min(maxResults, 20) : 10, for
\* maxResults absent or a number
resolveNum(maxResults) ==
    IF Truthy(maxResults) /\ maxResults.n > 0
    THEN (IF maxResults.n < maxNum THEN maxResults.n ELSE maxNum)
    ELSE defaultNum

ok_Below400(status) == status >= 200 /\ status <= 399

\* response.ok
ok(status) == status >= 200 /\ status <= 299

\* res.status(status).json({ error })
ErrorResponse(status, error) == [status |-> status, error |-> error, body |-> <<>>]

\* res.json(suppliers)
SuccessResponse(suppliers) == [status |-> 200, error |-> "", body |-> suppliers]

\* the catch block
InternalError == ErrorResponse(500, "Internal server error")

filterLinked_KeepAll(results) == results

\* results.filter((r) => r.link)
filterLinked(results) == SelectSeq(results, LAMBDA r : Truthy(r.link))

\* mapResultToSupplier is pure: its results on the items of the provider's
\* answers are computed once
supplierOf ==
    [item \in OrganicItems, country \in Countries, requirements \in HandlerRequirements |->
        mapResultToSupplier(item, country, requirements)]

\* .map((item) => mapResultToSupplier(item, country, requirements))
mapAll(items, country, requirements) ==
    [i \in 1..Len(items) |-> supplierOf[items[i], country, requirements]]

\* data.organic_results || []
organicResults(d) == IF d.hasOrganic THEN d.organic_results ELSE <<>>

\* the calls of the mapper made before the first one that throws, it included
callsMade(mapped) ==
    LET bad == {i \in 1..Len(mapped) : mapped[i].threw}
    IN  IF bad = {} THEN Len(mapped) ELSE SetMin(bad)

\* lines 157-173 and the catch block: up to await fetch(url)
HandleRequest ==
    /\ pc = "idle"
    /\ \E body \in Requests :
        LET bq == buildQuery(body.requirements, body.country, body.certifications)
        IN  /\ req' = body
            /\ IF bq.threw
               THEN /\ responses' = Append(responses, InternalError)
                    /\ pc' = "done"
                    /\ UNCHANGED <<query, num, fetchCount>>
               ELSE /\ query' = bq.query
                    /\ num' = resolveNum(body.maxResults)
                    /\ IF ~keyPresent
                       THEN /\ responses' = Append(responses,
                                  ErrorResponse(500, "SerpAPI key not configured on server."))
                            /\ pc' = "done"
                            /\ UNCHANGED fetchCount
                       ELSE /\ fetchCount' = fetchCount + 1
                            /\ pc' = "fetch"
                            /\ UNCHANGED responses
    /\ UNCHANGED <<keyPresent, upstream, bodyRead, mappedCount, data>>
    /\ UNCHANGED mapperVars

\* lines 174-181: fetch resolves with the provider's answer
FetchResolved ==
    /\ pc = "fetch"
    /\ \E status \in Statuses :
        /\ upstream' = status
        /\ IF ~ok(status)
           THEN /\ responses' = Append(responses,
                      ErrorResponse(502, "SerpAPI HTTP error " \o ToString(status)))
                /\ pc' = "done"
                /\ UNCHANGED bodyRead
           ELSE /\ bodyRead' = TRUE
                /\ pc' = "json"
                /\ UNCHANGED responses
    /\ UNCHANGED <<keyPresent, req, query, num, fetchCount, mappedCount, data>>
    /\ UNCHANGED mapperVars

FetchRejected_Retry ==
    /\ pc = "fetch"
    /\ fetchCount' = fetchCount + 1
    /\ UNCHANGED <<keyPresent, pc, req, query, num, upstream, bodyRead,
                   mappedCount, responses, data>>
    /\ UNCHANGED mapperVars

\* line 174 and the catch block: fetch rejects (network failure)
FetchRejected ==
    /\ pc = "fetch"
    /\ responses' = Append(responses, InternalError)
    /\ pc' = "done"
    /\ UNCHANGED <<keyPresent, req, query, num, fetchCount, upstream, bodyRead,
                   mappedCount, data>>
    /\ UNCHANGED mapperVars

\* lines 181-188 and the catch block: response.json() resolves
JsonResolved ==
    /\ pc = "json"
    /\ \E d \in Bodies :
        LET results == organicResults(d)
            kept    == slice0(filterLinked(results), num)
            mapped  == mapAll(kept, req.country, req.requirements)
        IN  /\ data' = d
            /\ mappedCount' = callsMade(mapped)
            /\ responses' = Append(responses,
                  IF \E i \in 1..Len(mapped) : mapped[i].threw
                  THEN InternalError
                  ELSE SuccessResponse(mapped))
    /\ pc' = "done"
    /\ UNCHANGED <<keyPresent, req, query, num, fetchCount, upstream, bodyRead>>
    /\ UNCHANGED mapperVars

\* line 181 and the catch block: response.json() rejects (malformed body)
JsonRejected ==
    /\ pc = "json"
    /\ responses' = Append(responses, InternalError)
    /\ pc' = "done"
    /\ UNCHANGED <<keyPresent, req, query, num, fetchCount, upstream, bodyRead,
                   mappedCount, data>>
    /\ UNCHANGED mapperVars

MapperIdle ==
    /\ mpc = "idle"
    /\ mItem = Item(JUndef, JUndef, JUndef, JUndef, JUndef)
    /\ mCountry = JUndef
    /\ mRequirements = JUndef
    /\ mOut = Thrown

HandlerIdle ==
    /\ pc = "idle"
    /\ req = NoRequest
    /\ query = ""
    /\ num = 0
    /\ fetchCount = 0
    /\ upstream = 0
    /\ bodyRead = FALSE
    /\ mappedCount = 0
    /\ responses = <<>>
    /\ data = NoData

Init ==
    /\ keyPresent \in BOOLEAN
    /\ HandlerIdle
    /\ MapperIdle

Next ==
    \/ HandleRequest
    \/ FetchResolved
    \/ FetchRejected
    \/ JsonResolved
    \/ JsonRejected

\* one request, from its arrival to its response
Spec == Init /\ [][Next]_vars

----------------------------------------------------------------------------
(* A direct call of mapResultToSupplier *)

MapCall ==
    /\ mpc = "call"
    /\ mOut' = mapResultToSupplier(mItem, mCountry, mRequirements)
    /\ mpc' = IF mOut'.threw THEN "threw" ELSE "returned"
    /\ UNCHANGED <<mItem, mCountry, mRequirements>>
    /\ UNCHANGED handlerVars

InitMap ==
    /\ keyPresent = TRUE
    /\ HandlerIdle
    /\ mpc = "call"
    /\ mItem \in MapItems
    /\ mCountry \in Countries
    /\ mRequirements \in RequirementsInputs
    /\ mOut = Thrown

NextMap == MapCall

\* mapResultToSupplier applied to each input
SpecMap == InitMap /\ [][NextMap]_vars

----------------------------------------------------------------------------
(* The request handler's properties *)

ConfigErrorResponse ==
    [status |-> 500, error |-> "SerpAPI key not configured on server.", body |-> <<>>]

\* C1: a request handled while the credential is absent is answered, whatever
\* its body holds, with status 500 and the configuration error, and with
\* nothing else.
C1_MissingKeyAlwaysConfigError ==
    (~keyPresent /\ pc = "done") => responses = <<ConfigErrorResponse>>

\* line 160 was reached: buildQuery returned
numResolved ==
    pc # "idle" /\ (fetchCount > 0 \/ responses = <<ConfigErrorResponse>>)

\* C2: num is 10 when maxResults is absent or <= 0, 20 when maxResults > 20,
\* maxResults itself when 0 < maxResults <= 20; so num is in (0, 20].
C2_NumClamped ==
    numResolved =>
        LET m == req.maxResults
        IN  /\ (m.t = "undefined" \/ (m.t = "number" /\ m.n <= 0)) => num = 10
            /\ (m.t = "number" /\ m.n > 20) => num = 20
            /\ (m.t = "number" /\ 0 < m.n /\ m.n <= 20) => num = m.n
            /\ 0 < num /\ num <= 20

C2_Witness ==
    numResolved /\ req.maxResults = JNum(21) /\ num = 20

\* C3: a non-success status s of the provider is answered with status 502 and
\* the error "SerpAPI HTTP error <s>"; no supplier record is mapped and the
\* provider's body is not read.
C3_UpstreamErrorIs502 ==
    (keyPresent /\ upstream # 0 /\ (upstream < 200 \/ upstream > 299)) =>
        /\ pc = "done"
        /\ responses = <<[status |-> 502,
                          error |-> "SerpAPI HTTP error " \o ToString(upstream),
                          body |-> <<>>]>>
        /\ mappedCount = 0
        /\ ~bodyRead

C3_Witness ==
    /\ upstream = 503
    /\ Len(responses) = 1
    /\ responses[1].status = 502
    /\ responses[1].error = "SerpAPI HTTP error 503"

\* the places of the provider's entries that have a link
linkedPlaces == {i \in 1..Len(organicResults(data)) : Truthy(organicResults(data)[i].link)}

\* the k-th smallest element of S
kth(S, k) == CHOOSE x \in S : Cardinality({y \in S : y < x}) = k - 1

\* C4: a 200 response holds, in the provider's order, the records of the
\* first num entries that have a link: at most num records, the k-th made by
\* mapResultToSupplier from the k-th entry with a link, its url that link.
C4_SuccessBodyIsFilteredTruncatedMapped ==
    (pc = "done" /\ responses[1].status = 200) =>
        LET body    == responses[1].body
            results == organicResults(data)
            count   == Cardinality(linkedPlaces)
        IN  /\ Len(body) = (IF count < num THEN count ELSE num)
            /\ Len(body) <= num
            /\ \A k \in 1..Len(body) :
                LET src == results[kth(linkedPlaces, k)]
                IN  /\ body[k] = supplierOf[src, req.country, req.requirements]
                    /\ Truthy(body[k].url)
                    /\ body[k].url = src.link

C4_Witness ==
    /\ pc = "done"
    /\ responses[1].status = 200
    /\ Len(responses[1].body) = num
    /\ Cardinality(linkedPlaces) > num
    /\ ~Truthy(organicResults(data)[1].link)

\* C8: one request issues at most one outbound search request, none without
\* the credential and no second one after a failure, and is answered exactly
\* once, with status 200, 500 or 502.
C8_OneFetchOneResponse ==
    /\ fetchCount <= 1
    /\ ~keyPresent => fetchCount = 0
    /\ pc # "done" => responses = <<>>
    /\ pc = "done" => Len(responses) = 1 /\ responses[1].status \in {200, 500, 502}

C8_Witness ==
    /\ pc = "done"
    /\ fetchCount = 1
    /\ upstream = 0
    /\ responses = <<InternalError>>

----------------------------------------------------------------------------
(* The mapper's properties *)

\* C5: mapResultToSupplier raises no error, whatever item, country and
\* requirements it is given.
C5_MapperNeverThrows == mpc # "threw"

TagOrder ==
    <<"ISO / quality", "Life sciences", "Plastics", "Contract manufacturing",
      "Prototyping", "Web result">>

\* the place of a tag in TagOrder, 0 for a tag that is not in it
tagRank(tag) ==
    IF \E r \in 1..Len(TagOrder) : TagOrder[r] = tag
    THEN CHOOSE r \in 1..Len(TagOrder) : TagOrder[r] = tag
    ELSE 0

\* C6: tags ends with "Web result"; its other elements are among the five
\* heuristic tags, in their fixed order and without duplicates.
C6_TagsOrderedMarkerLast ==
    mpc = "returned" =>
        LET tags == mOut.tags
        IN  /\ Len(tags) >= 1
            /\ tags[Len(tags)] = "Web result"
            /\ \A i \in 1..Len(tags) : tagRank(tags[i]) > 0
            /\ \A i, j \in 1..Len(tags) : i < j => tagRank(tags[i]) < tagRank(tags[j])

C6_Witness ==
    /\ mpc = "returned"
    /\ mOut.tags = <<"ISO / quality", "Plastics", "Prototyping", "Web result">>

\* where a run of [a-z0-9] starts in the lower-cased requirements lr
tokenStarts(lr) ==
    {i \in 1..Len(lr) :
        IsLowerAlnum(CharAt(lr, i)) /\ (i = 1 \/ ~IsLowerAlnum(CharAt(lr, i - 1)))}

\* the run that starts at i
token(lr, i) ==
    SubSeq(lr, i, SetMin({j \in i..Len(lr) :
                             j = Len(lr) \/ ~IsLowerAlnum(CharAt(lr, j + 1))}))

\* first occurrences of the tokens of length >= 4
distinctLongTokens(lr) ==
    LET starts == tokenStarts(lr)
    IN  {i \in starts :
            /\ Len(token(lr, i)) >= 4
            /\ \A k \in starts : k < i => token(lr, k) # token(lr, i)}

\* the first 8 of them
countedTokens(lr) ==
    LET distinct == distinctLongTokens(lr)
    IN  {i \in distinct : Cardinality({k \in distinct : k < i}) < 8}

RECURSIVE tokensInOrder(_, _)
\* the tokens that start at the places S, in the order of the text
tokensInOrder(lr, S) ==
    IF S = {} THEN <<>>
    ELSE <<token(lr, SetMin(S))>> \o tokensInOrder(lr, S \ {SetMin(S)})

\* the counted keywords of each requirements text
countedKeywordsOf ==
    [r \in RequirementsInputs |->
        LET lr == toLowerCase(OrElse(r, JStr("")).s)
        IN  tokensInOrder(lr, countedTokens(lr))]

countedKeywords == countedKeywordsOf[mRequirements]

\* those that occur in the lower-cased snippet
matchedCounted ==
    LET lowerSnippet == toLowerCase(mOut.description)
    IN  SelectSeq(countedKeywords, LAMBDA w : includes(lowerSnippet, w))

NoKeywordsSummary == "No specific keywords provided - generic supplier match."

\* C7: matchScore is the integer in 0..100 nearest to 100 * matched / total
\* (halves up), total counting the first 8 distinct tokens of length >= 4 and
\* matched those of them in the snippet; with no such token it is 0 and
\* matchSummary is the no-keywords message.
C7_MatchScoreIsRoundedShare ==
    mpc = "returned" =>
        LET total   == Len(countedKeywords)
            matched == Len(matchedCounted)
            score   == mOut.matchScore
        IN  /\ score \in 0..100
            /\ total > 0 =>
                /\ 2 * total * score <= 200 * matched + total
                /\ 200 * matched + total < 2 * total * (score + 1)
            /\ total = 0 => score = 0 /\ mOut.matchSummary = NoKeywordsSummary

C7_Witness ==
    /\ mpc = "returned"
    /\ Len(countedKeywords) = 4
    /\ mOut.matchScore = 75

ClaimedPatterns == <<"based in ", "headquartered in ", "located in ">>

inSnippet(i) == match(mOut.description, ClaimedPatterns[i])

inTitle(i) ==
    IF mOut.name.t = "string" THEN match(mOut.name.s, ClaimedPatterns[i])
    ELSE [found |-> FALSE, m1 |-> ""]

\* the patterns that match the snippet or the title
matchingPatterns ==
    {i \in 1..Len(ClaimedPatterns) : inSnippet(i).found \/ inTitle(i).found}

countrySuffix == IF Truthy(mCountry) THEN ", " \o ToJSString(mCountry) ELSE ""

\* C9: the location comes from the first pattern, in the order based in,
\* headquartered in, located in, that matches the snippet or else the title
\* (an earlier pattern in the title wins over a later one in the snippet): the
\* trimmed capture, then ", <country>" when given. With no match, location is
\* the country, or "Not specified", and locationDetail the default.
C9_PatternOrderDominates ==
    mpc = "returned" =>
        IF matchingPatterns = {}
        THEN /\ mOut.location = (IF Truthy(mCountry) THEN mCountry ELSE JStr("Not specified"))
             /\ mOut.locationDetail = "Location not clearly stated in search snippet."
        ELSE LET i   == SetMin(matchingPatterns)
                 cap == IF inSnippet(i).found THEN inSnippet(i).m1 ELSE inTitle(i).m1
             IN  /\ mOut.location = JStr(trim(cap) \o countrySuffix)
                 /\ mOut.locationDetail =
                        "Appears to be located in " \o trim(cap) \o " (from snippet/title)."

C9_Witness ==
    /\ mpc = "returned"
    /\ inSnippet(3).found
    /\ ~inSnippet(1).found
    /\ inTitle(1).found
    /\ mOut.location = JStr("New-York City, Germany")

\* C10: with at least one counted keyword, matchScore is 0 exactly when none
\* of them is in the snippet, and then matchSummary is the zero-match
\* message; otherwise matchScore >= 13 and matchSummary is the "Matches
\* approx." message with the score and the matched keywords.
C10_ZeroScoreIffNoMatch ==
    (mpc = "returned" /\ countedKeywords # <<>>) =>
        /\ mOut.matchScore = 0 <=> matchedCounted = <<>>
        /\ matchedCounted = <<>> =>
              mOut.matchSummary =
                  "Snippet does not clearly mention your key terms - review manually for fit."
        /\ matchedCounted # <<>> =>
              /\ mOut.matchScore >= 13
              /\ mOut.matchSummary =
                     "Matches approx. " \o ToString(mOut.matchScore)
                         \o "% of your key terms: "
                         \o join(matchedCounted, ", ") \o "."

C10_Witness ==
    /\ mpc = "returned"
    /\ Len(countedKeywords) = 8
    /\ mOut.matchSummary = "Matches approx. 13% of your key terms: plastic."

====
